---- MODULE Spec2Model ----
(***************************************************************************)
(* Model of ubuntu_image/classic_builder.py: the ClassicBuilder steps      *)
(* prepare_image, populate_rootfs_contents (with its helper                *)
(* _prepare_rootfs_system_boot_mount) and generate_manifests.              *)
(*                                                                         *)
(* Text (fstab contents, manifest lines, labels) is a sequence of          *)
(* one-character strings, so that the regular-expression substitution,     *)
(* the substring tests and the string concatenations of the code are       *)
(* computed character by character.                                        *)
(***************************************************************************)
EXTENDS Integers, Sequences, FiniteSets, TLC

VARIABLES pc, args_filesystem, cloud_init, gadget, src, rootfs, faults,
          failed, exitcode, raised, fstab_in, fstab_contents,
          fstab_additions, boot_partition, volume, query_output, manifest

vars == <<pc, args_filesystem, cloud_init, gadget, src, rootfs, faults,
          failed, exitcode, raised, fstab_in, fstab_contents,
          fstab_additions, boot_partition, volume, query_output, manifest>>

----------------------------------------------------------------------------
(* Bounds of the model. *)

\* Largest number of chunks an input fstab text is assembled from.
MaxChunks == 4
\* Largest number of volumes of a device layout.
MaxVolumes == 2
\* Largest number of structures of a device layout, all volumes together.
MaxStructs == 3
\* Largest number of lines of the captured package-query output.
MaxLines == 3
\* Largest number of operations that fail during one build.
MaxFaults == 2

----------------------------------------------------------------------------
(* String constants of the module. *)

DEFAULT_FS == <<"e","x","t","4">>
DEFAULT_FS_LABEL == <<"w","r","i","t","a","b","l","e">>

\* The literal 'LABEL=' of the pattern and of the format strings.
LABEL_EQ == <<"L","A","B","E","L","=">>

\* 'LABEL={}'.format(DEFAULT_FS_LABEL)
RootFsLabel == LABEL_EQ \o DEFAULT_FS_LABEL

\* 'LABEL={}   /   {}   defaults    0 0\n'.format(DEFAULT_FS_LABEL, DEFAULT_FS)
RootLine ==
    LABEL_EQ \o DEFAULT_FS_LABEL \o <<" "," "," ","/"," "," "," ">>
    \o DEFAULT_FS
    \o <<" "," "," ","d","e","f","a","u","l","t","s"," "," "," "," ","0"," ","0","\n">>

\* FileSystemType member names (parser.FileSystemType.<member>.name).
FsName(fs) ==
    CASE fs = "vfat" -> <<"v","f","a","t">>
      [] fs = "ext4" -> <<"e","x","t","4">>
      [] fs = "none" -> <<"n","o","n","e">>

\* 'LABEL={}   /boot/system-boot    {}    defaults    0 1\n'.format(label, fs.name)
BootLine(label, fs) ==
    LABEL_EQ \o label
    \o <<" "," "," ","/","b","o","o","t","/","s","y","s","t","e","m","-","b","o","o","t"," "," "," "," ">>
    \o FsName(fs)
    \o <<" "," "," "," ","d","e","f","a","u","l","t","s"," "," "," "," ","0"," ","1","\n">>

\* deprecated_words = ['ubiquity', 'casper']
deprecated_words ==
    << <<"u","b","i","q","u","i","t","y">>, <<"c","a","s","p","e","r">> >>

----------------------------------------------------------------------------
(* Python string primitives used by the code. *)

\* Characters the regular expression class \s matches (so \S is the rest).
IsSpace(c) == c \in {" ", "\n", "\t"}

\* s[i:i+len(p)] == p, with 1-based i.
MatchesAt(s, p, i) ==
    /\ i >= 1
    /\ i + Len(p) - 1 <= Len(s)
    /\ \A k \in 1..Len(p) : s[i + k - 1] = p[k]

\* Python's  p in s  on strings.
Contains(s, p) == \E i \in 1..(Len(s) + 1) : MatchesAt(s, p, i)

\* Positions where the pattern (LABEL=)\S+ matches: the literal followed by
\* at least one non-whitespace character.
LabelTokenStarts(s) ==
    {i \in 1..Len(s) : /\ MatchesAt(s, LABEL_EQ, i)
                       /\ i + Len(LABEL_EQ) <= Len(s)
                       /\ ~IsSpace(s[i + Len(LABEL_EQ)])}

Min(S) == CHOOSE x \in S : \A y \in S : x <= y

\* Last position of the greedy run \S+ that starts at position i.
TokenEnd(s, i) ==
    IF \E j \in i..Len(s) : IsSpace(s[j])
    THEN Min({j \in i..Len(s) : IsSpace(s[j])}) - 1
    ELSE Len(s)

Max(S) == CHOOSE x \in S : \A y \in S : x >= y

\* ReSubLabel with the substitution applied to the last match instead of the
\* first one.
ReSubLabel_last(s) ==
    IF LabelTokenStarts(s) = {}
    THEN s
    ELSE LET i == Max(LabelTokenStarts(s))
             e == TokenEnd(s, i + Len(LABEL_EQ))
         IN  SubSeq(s, 1, i - 1) \o LABEL_EQ \o DEFAULT_FS_LABEL
             \o SubSeq(s, e + 1, Len(s))

\* re.sub(r'(LABEL=)\S+', r'\1writable', s, count=1): the leftmost match is
\* replaced by group 1 followed by the default label; nothing else changes.
ReSubLabel(s) ==
    IF LabelTokenStarts(s) = {}
    THEN s
    ELSE LET i == Min(LabelTokenStarts(s))
             e == TokenEnd(s, i + Len(LABEL_EQ))
         IN  SubSeq(s, 1, i - 1) \o LABEL_EQ \o DEFAULT_FS_LABEL
             \o SubSeq(s, e + 1, Len(s))

----------------------------------------------------------------------------
(* The device layout (self.gadget.volumes) and the boot-partition scan. *)

\* A path with no file at it, a text that was never produced, the value
\* None of boot_partition, and a manifest that was never written.
NoFile == <<"<no file>">>
NoText == <<"<no text>">>
None == [vol |-> 0, idx |-> 0]
NoManifest == << <<"<no file>">> >>

\* A structure is [role, filesystem_label, filesystem]; a volume is
\* [bootloader, structures]; a layout is the sequence of the volumes in
\* the order self.gadget.volumes.values() yields them.

\* The condition of the if statement inside the two loops.
Eligible(part) ==
    /\ part.role = "system_boot"
    /\ part.filesystem_label # <<>>
    /\ part.filesystem # "none"

\* The inner loop: index of the structure at which it breaks, 0 if it
\* runs to the end without a match.
RECURSIVE InnerScan(_, _)
InnerScan(structures, j) ==
    IF j > Len(structures) THEN 0
    ELSE IF Eligible(structures[j]) THEN j
    ELSE InnerScan(structures, j + 1)

\* OuterScan with the break leaving both loops: the first match wins.
RECURSIVE OuterScan_first(_, _, _)
OuterScan_first(volumes, i, bp) ==
    IF i > Len(volumes) THEN bp
    ELSE LET j == InnerScan(volumes[i].structures, 1)
         IN  IF j # 0 THEN [vol |-> i, idx |-> j]
             ELSE OuterScan_first(volumes, i + 1, bp)

\* The outer loop from volume i on, bp being the value of boot_partition so
\* far: a match assigns boot_partition; the break leaves the inner loop only.
RECURSIVE OuterScan(_, _, _)
OuterScan(volumes, i, bp) ==
    IF i > Len(volumes) THEN bp
    ELSE LET j == InnerScan(volumes[i].structures, 1)
         IN  OuterScan(volumes, i + 1,
                       IF j # 0 THEN [vol |-> i, idx |-> j] ELSE bp)

\* boot_partition after the loops: None or the position of the structure.
ScanBootPartition(volumes) == OuterScan(volumes, 1, None)

\* The loop variable  volume  after the outer loop has run to its end: the
\* last volume the loop visited (0: the loop body never ran).
LoopVolume(volumes) == Len(volumes)

PartAt(volumes, bp) == volumes[bp.vol].structures[bp.idx]

----------------------------------------------------------------------------
(* The directory tree under the destination, as far as the code looks at  *)
(* it.  An entry kind is one of                                            *)
(*   absent, file, emptydir, dir (non-empty directory),                    *)
(*   linkdir (symlink to a directory), dangling (dangling symlink),        *)
(*   bootlink (the symlink to /boot/system-boot the code creates).         *)
(* grub_entries is the set of kinds of entries os.listdir finds in         *)
(* boot/grub ("file": non-directories, "dir": directories).                *)

\* os.path.exists follows symlinks: false for a dangling symlink.  The
\* target of bootlink is an absolute path outside the destination tree.
PathExists(kind) == kind \in {"file", "emptydir", "dir", "linkdir"}

\* os.path.isdir follows symlinks too.
PathIsDir(kind) == kind \in {"emptydir", "dir", "linkdir"}

\* if os.path.exists(path): rmtree or unlink.  shutil.rmtree(...,
\* ignore_errors=True) never raises: a failed removal leaves the directory,
\* and a symlink (which rmtree refuses) is left too.  os.unlink raises.
\* Gives the kind left at the path, whether an exception went out, and the
\* operations that failed.
RemoveAtPath(kind, fs) ==
    IF ~PathExists(kind)
    THEN [kind |-> kind, raised |-> FALSE, failed |-> {}]
    ELSE IF PathIsDir(kind)
    THEN IF kind = "linkdir" \/ "rmtree_link" \in fs
         THEN [kind |-> kind, raised |-> FALSE, failed |-> {"rmtree_link"}]
         ELSE [kind |-> "absent", raised |-> FALSE, failed |-> {}]
    ELSE IF "unlink_link" \in fs
         THEN [kind |-> kind, raised |-> TRUE, failed |-> {"unlink_link"}]
         ELSE [kind |-> "absent", raised |-> FALSE, failed |-> {}]

\* os.symlink('/boot/system-boot', path) after the removal rm: it raises
\* FileExistsError when something is still at the path.
SymlinkAfter(rm, fs) ==
    IF rm.raised THEN rm
    ELSE IF rm.kind # "absent" \/ "symlink" \in fs
    THEN [kind |-> rm.kind, raised |-> TRUE,
          failed |-> rm.failed \cup {"symlink"}]
    ELSE [kind |-> "bootlink", raised |-> FALSE, failed |-> rm.failed]

\* The block  if exists: (rmtree | unlink); os.symlink(...)  for one path.
EnsureSymlink(kind, fs) == SymlinkAfter(RemoveAtPath(kind, fs), fs)

\* AlreadyMounted with the label looked for at the start of the text only.
AlreadyMounted_prefix(text, label) == MatchesAt(text, LABEL_EQ \o label, 1)

\* fs_label = 'LABEL={}'.format(label);  fs_label in fstab_contents
AlreadyMounted(text, label) == Contains(text, LABEL_EQ \o label)

\* What the function hands back and leaves behind: the returned
\* fstab_additions, the tree, the failure, the locals boot_partition and
\* volume.  r is the outcome of the last operation; an exception returns
\* no addition.
BootMountResult(add, tree, r, bp, v) ==
    [additions |-> IF r.raised THEN <<>> ELSE add, tree |-> tree,
     raised |-> r.raised, failed |-> r.failed,
     boot_partition |-> bp, volume |-> v]

NoFailure == [raised |-> FALSE, failed |-> {}]

\* The grub branch once the symlink block r has run on boot/grub.
GrubLinked(tree, r, add, bp, v) ==
    BootMountResult(add,
        [tree EXCEPT !.grub = r.kind,
                     !.grub_entries = IF r.kind \in {"absent", "bootlink"}
                                      THEN {} ELSE @],
        r, bp, v)

\* The u-boot branch once the symlink block r has run on boot/firmware.
FirmwareLinked(tree, r, add, bp, v) ==
    BootMountResult(add, [tree EXCEPT !.firmware = r.kind], r, bp, v)

\* if volume.bootloader is BootLoader.grub: ... elif ... is BootLoader.uboot:
LinkForBootloader(tree, fs, bl, add, bp, v) ==
    IF bl = "grub"
    THEN GrubLinked(tree, EnsureSymlink(tree.grub, fs), add, bp, v)
    ELSE IF bl = "uboot"
    THEN FirmwareLinked(tree, EnsureSymlink(tree.firmware, fs), add, bp, v)
    ELSE BootMountResult(add, tree, NoFailure, bp, v)

\* The body of the function after the loops, bp and v being the values of
\* boot_partition and of the loop variable volume.
ConfigureBootMount(volumes, tree, text, fs, bp, v) ==
    IF bp = None
    THEN BootMountResult(<<>>, tree, NoFailure, bp, v)
    ELSE IF AlreadyMounted(text, PartAt(volumes, bp).filesystem_label)
    THEN BootMountResult(<<>>, tree, NoFailure, bp, v)
    ELSE IF "makedirs" \in fs
    THEN BootMountResult(<<>>, tree,
             [raised |-> TRUE, failed |-> {"makedirs"}], bp, v)
    ELSE LinkForBootloader([tree EXCEPT !.system_boot = "dir"], fs,
             volumes[v].bootloader,
             BootLine(PartAt(volumes, bp).filesystem_label,
                      PartAt(volumes, bp).filesystem),
             bp, v)

\* ClassicBuilder._prepare_rootfs_system_boot_mount(dst, fstab_contents):
\* tree is the destination, text the fstab contents handed in, fs the
\* operations that fail.
PrepareSystemBootMount(volumes, tree, text, fs) ==
    ConfigureBootMount(volumes, tree, text, fs,
                       ScanBootPartition(volumes), LoopVolume(volumes))

----------------------------------------------------------------------------
(* populate_rootfs_contents, stage by stage. *)

EmptyTree ==
    [grub |-> "absent", grub_entries |-> {}, firmware |-> "absent",
     system_boot |-> "absent", fstab |-> NoFile, seed |-> FALSE]

\* helpers.run raises when the command it runs exits with a non-zero
\* status.
CommandFails(op, fs) == op \in fs

\* helpers.live_build raises the CalledProcessError that prepare_image
\* catches.
LiveBuildFails(fs) == "live_build" \in fs

\* Assemble with a failing move passed over.
Assemble_lenient(source, tree, filesystem, fs) ==
    IF filesystem
    THEN IF CommandFails("copy", fs)
         THEN [tree |-> tree, source |-> source, raised |-> TRUE,
               failed |-> {"copy"}]
         ELSE [tree |-> source, source |-> source, raised |-> FALSE,
               failed |-> {}]
    ELSE IF "move" \in fs
         THEN [tree |-> tree, source |-> source, raised |-> FALSE,
               failed |-> {"move"}]
         ELSE [tree |-> source, source |-> EmptyTree, raised |-> FALSE,
               failed |-> {}]

\* The copy (args.filesystem given) or the move of every top-level entry
\* (chroot output) into the destination.
Assemble(source, tree, filesystem, fs) ==
    IF filesystem
    THEN IF CommandFails("copy", fs)
         THEN [tree |-> tree, source |-> source, raised |-> TRUE,
               failed |-> {"copy"}]
         ELSE [tree |-> source, source |-> source, raised |-> FALSE,
               failed |-> {}]
    ELSE IF "move" \in fs
         THEN [tree |-> tree, source |-> source, raised |-> TRUE,
               failed |-> {"move"}]
         ELSE [tree |-> source, source |-> EmptyTree, raised |-> FALSE,
               failed |-> {}]

\* The loop over os.listdir(grub_folder).  Directories (and symlinks to
\* directories) go to shutil.rmtree(..., ignore_errors=True), which never
\* raises and leaves what it could not remove; everything else goes to
\* os.unlink, which raises.  os.listdir gives the entries in no particular
\* order: dir_first tells whether the directories come before the files.
CleanGrubFolder(tree, fs, dir_first) ==
    IF ~PathExists(tree.grub)
    THEN [tree |-> tree, raised |-> FALSE, failed |-> {}]
    ELSE IF ~PathIsDir(tree.grub)
    THEN [tree |-> tree, raised |-> TRUE, failed |-> {"listdir"}]
    ELSE LET E == tree.grub_entries
             fileFails == "file" \in E /\ "unlink_entry" \in fs
             reached == ~fileFails \/ dir_first
             dirGone == "dir" \in E /\ reached /\ "rmtree_entry" \notin fs
             dirFails == reached /\ \/ "dir" \in E /\ "rmtree_entry" \in fs
                                    \/ "linkdir" \in E
             fileGone == "file" \in E /\ ~fileFails
             left == (E \ (IF dirGone THEN {"dir"} ELSE {}))
                       \ (IF fileGone THEN {"file"} ELSE {})
         IN  [tree |-> [tree EXCEPT
                  !.grub_entries = left,
                  !.grub = IF @ = "dir" /\ left = {} THEN "emptydir" ELSE @],
              raised |-> fileFails,
              failed |-> (IF dirFails THEN {"rmtree_entry"} ELSE {})
                           \cup (IF fileFails THEN {"unlink_entry"} ELSE {})]

\* Insert LABEL entry if it's not found at fstab.
AppendRootLine(new_content) ==
    IF ~Contains(new_content, RootFsLabel)
    THEN new_content \o RootLine
    ELSE new_content

\* new_content before the boot-mount addition: the substitution, then the
\* root line when 'LABEL=writable' is not in the text.
RewriteRoot(text) == AppendRootLine(ReSubLabel(text))

\* new_content += additions; the fstab is written unless an exception went
\* out of the boot-mount function or the write fails.  bm is the outcome of
\* the boot-mount function for new_content.
WriteFstab(new_content, bm, fs) ==
    [tree |-> IF ~bm.raised /\ "fstab_write" \notin fs
              THEN [bm.tree EXCEPT !.fstab = new_content \o bm.additions]
              ELSE bm.tree,
     raised |-> bm.raised \/ "fstab_write" \in fs,
     failed |-> IF bm.raised THEN bm.failed
                ELSE IF "fstab_write" \in fs THEN {"fstab_write"}
                ELSE bm.failed,
     handed |-> new_content,
     additions |-> bm.additions,
     boot_partition |-> bm.boot_partition,
     volume |-> bm.volume]

MountAndWrite(volumes, tree, fs, new_content) ==
    WriteFstab(new_content,
               PrepareSystemBootMount(volumes, tree, new_content, fs), fs)

NotRewritten(tree, r) ==
    [tree |-> tree, raised |-> r.raised, failed |-> r.failed,
     handed |-> NoText, additions |-> NoText, boot_partition |-> None,
     volume |-> 0]

\* The whole  if os.path.exists(fstab_path):  block.
RewriteFstab(volumes, tree, fs) ==
    IF tree.fstab = NoFile
    THEN NotRewritten(tree, NoFailure)
    ELSE MountAndWrite(volumes, tree, fs, RewriteRoot(tree.fstab))

\* The fstab transformation alone: the text written for the text read.
FstabTransform(volumes, text) ==
    MountAndWrite(volumes, [EmptyTree EXCEPT !.fstab = text], {},
                  RewriteRoot(text)).tree.fstab

\* The  if self.cloud_init is not None:  block.
SeedCloudInit(tree, configured) ==
    IF configured THEN [tree EXCEPT !.seed = TRUE] ELSE tree

----------------------------------------------------------------------------
(* generate_manifests: the filter over the captured lines. *)

\* Retained with the first word of the list tested only.
Retained_first(line) == ~Contains(line, deprecated_words[1])

\* not any(word in line for word in deprecated_words)
Retained(line) ==
    ~\E w \in 1..Len(deprecated_words) : Contains(line, deprecated_words[w])

\* The loop  for line in tmpfile: if ...: manifest.write(line).
RECURSIVE FilterLines(_)
FilterLines(lines) ==
    IF lines = <<>> THEN <<>>
    ELSE (IF Retained(Head(lines)) THEN <<Head(lines)>> ELSE <<>>)
         \o FilterLines(Tail(lines))

----------------------------------------------------------------------------
(* The steps of the builder. *)

\* prepare_image: a failing live-build sets the exit code and appends no
\* next step; otherwise the parent's prepare_image continues the chain.
PrepareImage ==
    /\ pc = "prepare_image"
    /\ IF ~args_filesystem /\ LiveBuildFails(faults)
       THEN /\ exitcode' = 1
            /\ failed' = failed \cup {"live_build"}
            /\ pc' = "stopped"
       ELSE /\ pc' = "populate_rootfs_contents"
            /\ UNCHANGED <<exitcode, failed>>
    /\ UNCHANGED <<args_filesystem, cloud_init, gadget, src, rootfs, faults,
                   raised, fstab_in, fstab_contents, fstab_additions,
                   boot_partition, volume, query_output, manifest>>

\* The grub cleaning after the assembly a, unless a raised.
CleanAssembled(a, fs, dir_first) ==
    IF a.raised
    THEN [tree |-> a.tree, raised |-> TRUE, failed |-> a.failed]
    ELSE [CleanGrubFolder(a.tree, fs, dir_first) EXCEPT
             !.failed = a.failed \cup @]

\* The fstab block after the cleaning c, unless c raised.
RewriteCleaned(volumes, c, fs) ==
    IF c.raised
    THEN NotRewritten(c.tree, c)
    ELSE [RewriteFstab(volumes, c.tree, fs) EXCEPT !.failed = c.failed \cup @]

\* populate_rootfs_contents: assemble, clean boot/grub, rewrite fstab, seed
\* cloud-init, hand over to the parent.
PopulateRootfsContents ==
    /\ pc = "populate_rootfs_contents"
    /\ \E dir_first \in BOOLEAN :
       \E a \in {Assemble(src, rootfs, args_filesystem, faults)} :
       \E c \in {CleanAssembled(a, faults, dir_first)} :
       \E f \in {RewriteCleaned(gadget, c, faults)} :
           /\ rootfs' = IF f.raised THEN f.tree
                        ELSE SeedCloudInit(f.tree, cloud_init)
           /\ src' = a.source
           /\ raised' = f.raised
           /\ failed' = failed \cup f.failed
           /\ fstab_in' = IF c.raised THEN NoFile ELSE c.tree.fstab
           /\ fstab_contents' = f.handed
           /\ fstab_additions' = f.additions
           /\ boot_partition' = f.boot_partition
           /\ volume' = f.volume
           /\ pc' = IF f.raised THEN "raised" ELSE "generate_manifests"
    /\ UNCHANGED <<args_filesystem, cloud_init, gadget, faults, exitcode,
                   query_output, manifest>>

\* generate_manifests: the package query is captured, then filtered.
GenerateManifests ==
    /\ pc = "generate_manifests"
    /\ IF CommandFails("query", faults)
       THEN /\ raised' = TRUE
            /\ failed' = failed \cup {"query"}
            /\ pc' = "raised"
            /\ UNCHANGED manifest
       ELSE /\ manifest' = FilterLines(query_output)
            /\ pc' = "done"
            /\ UNCHANGED <<raised, failed>>
    /\ UNCHANGED <<args_filesystem, cloud_init, gadget, src, rootfs, faults,
                   exitcode, fstab_in, fstab_contents, fstab_additions,
                   boot_partition, volume, query_output>>

\* _prepare_rootfs_system_boot_mount called on its own, with the destination
\* tree and an fstab text as arguments.
PrepareRootfsSystemBootMount ==
    /\ pc = "_prepare_rootfs_system_boot_mount"
    /\ \E bm \in {PrepareSystemBootMount(gadget, rootfs, fstab_contents,
                                         faults)} :
           /\ rootfs' = bm.tree
           /\ raised' = bm.raised
           /\ failed' = failed \cup bm.failed
           /\ fstab_additions' = bm.additions
           /\ boot_partition' = bm.boot_partition
           /\ volume' = bm.volume
           /\ pc' = IF bm.raised THEN "raised" ELSE "returned"
    /\ UNCHANGED <<args_filesystem, cloud_init, gadget, src, faults, exitcode,
                   fstab_in, fstab_contents, query_output, manifest>>

----------------------------------------------------------------------------
(* Inputs. *)

\* Sequences over S of length at most n.
SeqUpTo(S, n) == UNION {[1..k -> S] : k \in 0..n}

RECURSIVE Flatten(_)
Flatten(ss) == IF ss = <<>> THEN <<>> ELSE Head(ss) \o Flatten(Tail(ss))

SystemBootLabel == <<"s","y","s","t","e","m","-","b","o","o","t">>
EfiLabel == <<"e","f","i">>
UuidLine ==
    <<"U","U","I","D","=","1","2","3","4"," ","/"," ","e","x","t","4"," ",
      "d","e","f","a","u","l","t","s"," ","0"," ","1">>

\* The pieces input fstab texts are assembled from.
Chunks ==
    {LABEL_EQ, LABEL_EQ \o EfiLabel, DEFAULT_FS_LABEL, SystemBootLabel,
     <<" ">>, <<"\n">>, <<"#">>, UuidLine}

Texts == {Flatten(cs) : cs \in SeqUpTo(Chunks, MaxChunks)}

\* The pieces of the texts handed to _prepare_rootfs_system_boot_mount
\* when it is called on its own.
BootChunks == {LABEL_EQ, SystemBootLabel, EfiLabel, <<" ">>}

BootTexts == {Flatten(cs) : cs \in SeqUpTo(BootChunks, MaxChunks)}

BootPart == [role |-> "system_boot", filesystem_label |-> SystemBootLabel,
             filesystem |-> "vfat"]
EfiPart == [role |-> "system_boot", filesystem_label |-> EfiLabel,
            filesystem |-> "ext4"]
UnlabelledPart == [role |-> "system_boot", filesystem_label |-> <<>>,
                   filesystem |-> "vfat"]
RawPart == [role |-> "system_boot", filesystem_label |-> EfiLabel,
            filesystem |-> "none"]
DataPart == [role |-> "system_data", filesystem_label |-> SystemBootLabel,
             filesystem |-> "vfat"]

StructureKinds == {BootPart, EfiPart, UnlabelledPart, RawPart, DataPart}

Bootloaders == {"grub", "uboot", "lk"}

\* The ways to cut a list of len structures into n volumes: c[i] is the
\* number of structures in the first i volumes.
Cuts(n, len) ==
    {c \in [0..n -> 0..len] :
        /\ c[0] = 0
        /\ c[n] = len
        /\ \A i \in 1..n : c[i - 1] <= c[i]}

\* The layout of n volumes with the bootloaders b over the structure list
\* flat cut at c.
Layout(n, flat, c, b) ==
    [i \in 1..n |->
        [bootloader |-> b[i],
         structures |-> SubSeq(flat, c[i - 1] + 1, c[i])]]

\* Layouts of at most one volume with one structure.
SmallLayouts ==
    {<<>>} \cup
    {<<[bootloader |-> b, structures |-> <<p>>]>> :
        b \in Bootloaders, p \in {BootPart, EfiPart, DataPart}}

\* What may stand at boot/grub, with the entries inside it.
GrubStates ==
    {[kind |-> k, entries |-> {}] :
        k \in {"absent", "file", "emptydir", "linkdir", "dangling"}}
    \cup {[kind |-> "dir", entries |-> E] :
            E \in {{"file"}, {"dir"}, {"file", "dir"}, {"linkdir"}}}
    \cup {[kind |-> "linkdir", entries |-> {"file", "dir"}]}

PathKinds == {"absent", "file", "emptydir", "dir", "linkdir", "dangling"}

Trees(grubs, firmwares, boots, fstabs) ==
    {[grub |-> g.kind, grub_entries |-> g.entries, firmware |-> f,
      system_boot |-> b, fstab |-> t, seed |-> FALSE] :
        g \in grubs, f \in firmwares, b \in boots, t \in fstabs}

\* The operations that can fail.
FaultOps ==
    {"live_build", "copy", "move", "rmtree_entry", "unlink_entry", "makedirs",
     "rmtree_link", "unlink_link", "symlink", "fstab_write", "query"}

FaultSets == {F \in SUBSET FaultOps : Cardinality(F) <= MaxFaults}

ManifestLines ==
    { <<"f","o","o"," ","1",".","0","\n">>,
      <<"u","b","i","q","u","i","t","y"," ","2",".","0","\n">>,
      <<"b","a","r"," ","3",".","0","\n">>,
      <<"l","i","b","c","a","s","p","e","r","4"," ","1",".","2","\n">>,
      <<"C","a","s","p","e","r"," ","0",".","1","\n">>,
      <<"c","a","s","p","e"," ","2",".","0","\n">> }

QueryOutputs == SeqUpTo(ManifestLines, MaxLines)

ExampleOutput ==
    << <<"f","o","o"," ","1",".","0","\n">>,
       <<"u","b","i","q","u","i","t","y"," ","2",".","0","\n">>,
       <<"b","a","r"," ","3",".","0","\n">> >>

\* What no step has touched yet.
InitRest ==
    /\ failed = {}
    /\ exitcode = 0
    /\ raised = FALSE
    /\ fstab_in = NoFile
    /\ fstab_additions = NoText
    /\ boot_partition = None
    /\ volume = 0
    /\ manifest = NoManifest

----------------------------------------------------------------------------
(* The whole build: prepare_image, populate_rootfs_contents,               *)
(* generate_manifests, with operations that fail.                          *)

Init ==
    /\ pc = "prepare_image"
    /\ args_filesystem \in BOOLEAN
    /\ cloud_init \in BOOLEAN
    /\ gadget \in {<<>>} \cup
                  {<<[bootloader |-> b, structures |-> <<BootPart>>]>> :
                      b \in Bootloaders}
    /\ src \in Trees(GrubStates, {"absent", "file", "dir"}, {"absent"},
                     {NoFile, UuidLine \o <<"\n">>})
    /\ rootfs = EmptyTree
    /\ faults \in FaultSets
    /\ fstab_contents = NoText
    /\ query_output = ExampleOutput
    /\ InitRest

Next == PrepareImage \/ PopulateRootfsContents \/ GenerateManifests

Spec == Init /\ [][Next]_vars

----------------------------------------------------------------------------
(* populate_rootfs_contents over the trees it may find, nothing failing. *)

InitPopulate ==
    /\ pc = "populate_rootfs_contents"
    /\ args_filesystem \in BOOLEAN
    /\ cloud_init = FALSE
    /\ gadget \in SmallLayouts
    /\ src \in Trees(GrubStates, PathKinds, {"absent", "dir"},
                     {NoFile, UuidLine \o <<"\n">>,
                      LABEL_EQ \o SystemBootLabel \o <<"\n">>})
    /\ rootfs = EmptyTree
    /\ faults = {}
    /\ fstab_contents = NoText
    /\ query_output = ExampleOutput
    /\ InitRest

NextPopulate == PopulateRootfsContents

SpecPopulate == InitPopulate /\ [][NextPopulate]_vars

----------------------------------------------------------------------------
(* populate_rootfs_contents over the fstab texts. *)

InitFstab ==
    /\ pc = "populate_rootfs_contents"
    /\ args_filesystem = FALSE
    /\ cloud_init = FALSE
    /\ gadget \in {<<>>,
                   <<[bootloader |-> "grub", structures |-> <<BootPart>>]>>,
                   <<[bootloader |-> "lk", structures |-> <<EfiPart>>]>>}
    /\ src \in Trees({[kind |-> "absent", entries |-> {}]}, {"absent"},
                     {"absent"}, Texts)
    /\ rootfs = EmptyTree
    /\ faults = {}
    /\ fstab_contents = NoText
    /\ query_output = ExampleOutput
    /\ InitRest

NextFstab == PopulateRootfsContents

SpecFstab == InitFstab /\ [][NextFstab]_vars

----------------------------------------------------------------------------
(* _prepare_rootfs_system_boot_mount over fstab texts and trees. *)

InitBootMount ==
    /\ pc = "_prepare_rootfs_system_boot_mount"
    /\ args_filesystem = FALSE
    /\ cloud_init = FALSE
    /\ gadget \in SmallLayouts
    /\ src = EmptyTree
    /\ rootfs \in Trees({g \in GrubStates : g.entries = {}},
                        {"absent", "dir"}, {"absent", "dir"}, {NoFile})
    /\ faults = {}
    /\ fstab_contents \in BootTexts
    /\ query_output = ExampleOutput
    /\ InitRest

NextBootMount == PrepareRootfsSystemBootMount

SpecBootMount == InitBootMount /\ [][NextBootMount]_vars

----------------------------------------------------------------------------
(* _prepare_rootfs_system_boot_mount over every device layout of at most   *)
(* MaxVolumes volumes and MaxStructs structures.                           *)

InitScan ==
    /\ pc = "_prepare_rootfs_system_boot_mount"
    /\ args_filesystem = FALSE
    /\ cloud_init = FALSE
    /\ \E n \in 0..MaxVolumes, flat \in SeqUpTo(StructureKinds, MaxStructs) :
       \E c \in Cuts(n, Len(flat)), b \in [1..n -> Bootloaders] :
           gadget = Layout(n, flat, c, b)
    /\ src = EmptyTree
    /\ rootfs = EmptyTree
    /\ faults = {}
    /\ fstab_contents = UuidLine \o <<"\n">>
    /\ query_output = ExampleOutput
    /\ InitRest

NextScan == PrepareRootfsSystemBootMount

SpecScan == InitScan /\ [][NextScan]_vars

----------------------------------------------------------------------------
(* generate_manifests over the captured outputs. *)

InitManifest ==
    /\ pc = "generate_manifests"
    /\ args_filesystem = FALSE
    /\ cloud_init = FALSE
    /\ gadget = <<>>
    /\ src = EmptyTree
    /\ rootfs = EmptyTree
    /\ faults = {}
    /\ fstab_contents = NoText
    /\ query_output \in QueryOutputs
    /\ InitRest

NextManifest == GenerateManifests

SpecManifest == InitManifest /\ [][NextManifest]_vars

----------------------------------------------------------------------------
(* Vocabulary of the properties, stated without the operators above. *)

WhiteSpace == {" ", "\n", "\t"}

\* w occurs in s as a substring.
HasSubstring(s, w) ==
    \E a \in 1..(Len(s) + 1) : \E b \in 0..Len(s) : SubSeq(s, a, b) = w

\* s[i..e] is a token LABEL=<non-whitespace>: the literal, then a maximal
\* non-empty run of non-whitespace characters ending at e.
IsLabelToken(s, i, e) ==
    /\ 1 <= i /\ i + 6 <= e /\ e <= Len(s)
    /\ SubSeq(s, i, i + 5) = <<"L","A","B","E","L","=">>
    /\ \A k \in (i + 6)..e : s[k] \notin WhiteSpace
    /\ e = Len(s) \/ s[e + 1] \in WhiteSpace

HasLabelToken(s) ==
    \E i \in 1..Len(s) : \E e \in 1..Len(s) : IsLabelToken(s, i, e)

\* The lines of a text, without their line ends (str.splitlines).
RECURSIVE SplitLines(_)
SplitLines(s) ==
    IF s = <<>> THEN <<>>
    ELSE IF \A i \in 1..Len(s) : s[i] # "\n" THEN <<s>>
    ELSE LET i == CHOOSE n \in 1..Len(s) :
                      s[n] = "\n" /\ \A m \in 1..(n - 1) : s[m] # "\n"
         IN  <<SubSeq(s, 1, i - 1)>> \o SplitLines(SubSeq(s, i + 1, Len(s)))

\* The first whitespace-separated field of a line, <<>> for a blank line.
FirstField(line) ==
    IF \A i \in 1..Len(line) : line[i] \in WhiteSpace THEN <<>>
    ELSE LET a == CHOOSE n \in 1..Len(line) :
                      /\ line[n] \notin WhiteSpace
                      /\ \A m \in 1..(n - 1) : line[m] \in WhiteSpace
             e == CHOOSE n \in a..Len(line) :
                      /\ \A m \in a..n : line[m] \notin WhiteSpace
                      /\ n = Len(line) \/ line[n + 1] \in WhiteSpace
         IN  SubSeq(line, a, e)

LabelWritable == <<"L","A","B","E","L","=","w","r","i","t","a","b","l","e">>

ExpectedRootLine ==
    <<"L","A","B","E","L","=","w","r","i","t","a","b","l","e"," "," "," ",
      "/"," "," "," ","e","x","t","4"," "," "," ","d","e","f","a","u","l",
      "t","s"," "," "," "," ","0"," ","0">>

\* populate_rootfs_contents has run to its end and found an etc/fstab.
Rewritten == pc = "generate_manifests" /\ fstab_in # NoFile

\* The structure of the layout the scan resolved.
ResolvedPart == PartAt(gadget, boot_partition)

\* A structure that counts as a boot partition.
IsBootPartition(part) ==
    /\ part.role = "system_boot"
    /\ Len(part.filesystem_label) > 0
    /\ part.filesystem \in {"vfat", "ext4"}

HasBootPartition(v) ==
    \E j \in 1..Len(gadget[v].structures) :
        IsBootPartition(gadget[v].structures[j])

Called == pc \in {"returned", "raised"}

----------------------------------------------------------------------------
(* C1 *)

\* C1: the fstab text written back by populate_rootfs_contents contains
\* exactly one line whose first field is LABEL=writable, whatever the text
\* read held.
C1_ExactlyOneRootLine ==
    Rewritten =>
        Cardinality({n \in 1..Len(SplitLines(rootfs.fstab)) :
            FirstField(SplitLines(rootfs.fstab)[n]) = LabelWritable}) = 1

----------------------------------------------------------------------------
(* C5 *)

\* C5: for an fstab text without any LABEL=<non-whitespace> token, ending
\* with a newline or not, the root rewrite gives the lines of the input,
\* unaltered and in order, followed by exactly one new line
\* 'LABEL=writable   /   ext4   defaults    0 0' and a newline.
C5_AppendsOneLine ==
    (Rewritten /\ ~HasLabelToken(fstab_in)) =>
        /\ SplitLines(fstab_contents)
             = SplitLines(fstab_in) \o <<ExpectedRootLine>>
        /\ fstab_contents[Len(fstab_contents)] = "\n"

----------------------------------------------------------------------------
(* C6 *)

\* C6: for an fstab text with at least one LABEL=<non-whitespace> token, the
\* root rewrite replaces the value of the first such token by 'writable'
\* and leaves every other character as it is: the text before the value and
\* the text after the token are those of the input, so no line is appended.
C6_OnlyFirstTokenChanges ==
    (Rewritten /\ HasLabelToken(fstab_in)) =>
        \E i \in 1..Len(fstab_in) : \E e \in 1..Len(fstab_in) :
            /\ IsLabelToken(fstab_in, i, e)
            /\ \A i2 \in 1..(i - 1) : \A e2 \in 1..Len(fstab_in) :
                   ~IsLabelToken(fstab_in, i2, e2)
            /\ Len(fstab_contents) = (i + 5) + 8 + (Len(fstab_in) - e)
            /\ SubSeq(fstab_contents, 1, i + 5) = SubSeq(fstab_in, 1, i + 5)
            /\ SubSeq(fstab_contents, i + 6, i + 13)
                 = <<"w","r","i","t","a","b","l","e">>
            /\ SubSeq(fstab_contents, i + 14, Len(fstab_contents))
                 = SubSeq(fstab_in, e + 1, Len(fstab_in))

\* Reached: a text with two separate tokens was rewritten, the first one
\* changed and the second one is still there.
C6_Witness ==
    /\ Rewritten
    /\ \E i \in 1..Len(fstab_in) : \E e \in 1..Len(fstab_in) :
          \E i2 \in 1..Len(fstab_in) : \E e2 \in 1..Len(fstab_in) :
            /\ IsLabelToken(fstab_in, i, e)
            /\ IsLabelToken(fstab_in, i2, e2)
            /\ e < i2
    /\ fstab_contents # fstab_in
    /\ HasSubstring(fstab_contents, <<"L","A","B","E","L","=","e","f","i">>)

----------------------------------------------------------------------------
(* C10 *)

\* C10: the fstab transformation is idempotent: applied to the text it
\* wrote, it gives that text again.
C10_Idempotent ==
    Rewritten => FstabTransform(gadget, rootfs.fstab) = rootfs.fstab

----------------------------------------------------------------------------
(* C2 *)

\* The call of _prepare_rootfs_system_boot_mount takes place in this step.
CallStep == pc = "_prepare_rootfs_system_boot_mount" /\ pc' # pc

\* The call left everything as it was and returned an empty addition.
NothingDone ==
    /\ fstab_additions' = <<>>
    /\ rootfs' = rootfs
    /\ fstab_contents' = fstab_contents
    /\ raised' = FALSE

\* C2 as stated: when the label of the resolved boot partition occurs as a
\* substring of the fstab text handed in, the call returns an empty
\* addition and changes nothing in the tree.
C2_LabelSubstringSkips ==
    [][(/\ CallStep
        /\ boot_partition' # None
        /\ HasSubstring(fstab_contents,
               PartAt(gadget, boot_partition').filesystem_label))
       => NothingDone]_vars

\* C2 amended: when 'LABEL=' followed by the label of the resolved boot
\* partition occurs as a substring of the fstab text handed in, the call
\* returns an empty addition and changes nothing in the tree.
C2_LabelEntrySkips ==
    [][(/\ CallStep
        /\ boot_partition' # None
        /\ HasSubstring(fstab_contents,
               <<"L","A","B","E","L","=">>
               \o PartAt(gadget, boot_partition').filesystem_label))
       => NothingDone]_vars

\* Reached: the call returned for a grub volume whose boot partition is
\* named by a LABEL= entry in the middle of the text, with a directory at
\* boot/grub and no boot/system-boot that a configuration would have changed.
C2_Witness ==
    /\ pc = "returned"
    /\ boot_partition # None
    /\ gadget[1].bootloader = "grub"
    /\ HasSubstring(fstab_contents,
           <<" ","L","A","B","E","L","=">> \o ResolvedPart.filesystem_label)
    /\ rootfs.grub = "emptydir"
    /\ rootfs.system_boot = "absent"
    /\ fstab_additions = <<>>

----------------------------------------------------------------------------
(* C3 *)

\* C3: when the call configures a boot mount, the symlink it creates is the
\* one for the bootloader of the volume that owns the resolved structure:
\* boot/grub for grub, boot/firmware for u-boot, none otherwise.
C3_OwningVolumeDecides ==
    (/\ pc = "returned"
     /\ boot_partition # None
     /\ fstab_additions # <<>>)
    => LET bl == gadget[boot_partition.vol].bootloader
       IN  /\ rootfs.grub = IF bl = "grub" THEN "bootlink" ELSE "absent"
           /\ rootfs.firmware = IF bl = "uboot" THEN "bootlink" ELSE "absent"

----------------------------------------------------------------------------
(* C4 *)

\* C4: the scan resolves nothing exactly when no structure of any volume
\* is a boot partition; otherwise it resolves the first boot partition of
\* the last volume that has one.
C4_LastVolumeFirstStructure ==
    Called =>
        IF \A v \in 1..Len(gadget) : ~HasBootPartition(v)
        THEN boot_partition = None
        ELSE /\ boot_partition # None
             /\ boot_partition.vol \in 1..Len(gadget)
             /\ HasBootPartition(boot_partition.vol)
             /\ \A w \in (boot_partition.vol + 1)..Len(gadget) :
                    ~HasBootPartition(w)
             /\ boot_partition.idx
                    \in 1..Len(gadget[boot_partition.vol].structures)
             /\ IsBootPartition(ResolvedPart)
             /\ \A k \in 1..(boot_partition.idx - 1) :
                    ~IsBootPartition(
                        gadget[boot_partition.vol].structures[k])

\* Reached: two volumes with a boot partition each; the scan resolved the
\* second volume's, which stands behind a structure that is none.
C4_Witness ==
    /\ pc = "returned"
    /\ Len(gadget) = 2
    /\ HasBootPartition(1)
    /\ boot_partition = [vol |-> 2, idx |-> 2]
    /\ ResolvedPart.filesystem_label
         # gadget[1].structures[1].filesystem_label

----------------------------------------------------------------------------
(* C7 *)

\* The build ended in a failure the pipeline sees: an exception went out of
\* the step, or the exit code is set and no next step follows.
FailureSeen == raised \/ exitcode = 1

\* C7 as stated: whenever an operation has failed, the step ends in a
\* failure the pipeline sees.
C7_EveryFailureSeen == failed # {} => FailureSeen

\* C7 amended: whenever an operation other than the recursive removal of a
\* directory inside boot/grub has failed, the step ends in a failure the
\* pipeline sees.
C7_FailureSeenButEntryRemoval == (failed \ {"rmtree_entry"}) # {} => FailureSeen

\* Reached: the removal of the directory at the symlink path failed, and
\* the step ended with an exception.
C7_Witness ==
    /\ pc = "raised"
    /\ "rmtree_link" \in failed
    /\ "rmtree_link" \in faults
    /\ raised

----------------------------------------------------------------------------
(* C8 *)

HasDenied(line) ==
    \/ HasSubstring(line, <<"u","b","i","q","u","i","t","y">>)
    \/ HasSubstring(line, <<"c","a","s","p","e","r">>)

\* The positions of the captured lines without a deny-list substring.
KeptPositions == {i \in 1..Len(query_output) : ~HasDenied(query_output[i])}

\* C8: the manifest is the subsequence of the captured lines that contain
\* neither 'ubiquity' nor 'casper': its n-th line is the n-th such line.
C8_ManifestIsFilteredCapture ==
    pc = "done" =>
        /\ Len(manifest) = Cardinality(KeptPositions)
        /\ \A n \in 1..Len(manifest) :
               \E i \in KeptPositions :
                   /\ Cardinality({k \in KeptPositions : k <= i}) = n
                   /\ manifest[n] = query_output[i]

\* Reached: the example of the specification.
C8_Witness ==
    /\ pc = "done"
    /\ query_output = ExampleOutput
    /\ manifest = << <<"f","o","o"," ","1",".","0","\n">>,
                     <<"b","a","r"," ","3",".","0","\n">> >>

----------------------------------------------------------------------------
(* C9 *)

ExpectedBootLine(part) ==
    <<"L","A","B","E","L","=">> \o part.filesystem_label
    \o <<" "," "," ","/","b","o","o","t","/","s","y","s","t","e","m","-",
         "b","o","o","t"," "," "," "," ">>
    \o (IF part.filesystem = "vfat" THEN <<"v","f","a","t">>
        ELSE <<"e","x","t","4">>)
    \o <<" "," "," "," ","d","e","f","a","u","l","t","s"," "," "," "," ","0",
         " ","1","\n">>

EndsWith(s, w) ==
    Len(w) <= Len(s) /\ SubSeq(s, Len(s) - Len(w) + 1, Len(s)) = w

SamePath(before, after) ==
    \/ after = before
    \/ before \in {"dir", "emptydir"} /\ after \in {"dir", "emptydir"}

\* C9: populate_rootfs_contents, run with an etc/fstab and a boot partition
\* whose LABEL= entry is not in the rewritten fstab, completes with
\* boot/grub (grub) or boot/firmware (u-boot) a symlink to /boot/system-boot
\* whatever stood there, with boot/system-boot a directory and the boot line
\* appended; for another bootloader it leaves both paths as they were.
C9_SymlinkEnsured ==
    [][(/\ pc = "populate_rootfs_contents" /\ pc' # pc
        /\ src.fstab # NoFile
        /\ Len(gadget) = 1
        /\ Len(gadget[1].structures) = 1
        /\ IsBootPartition(gadget[1].structures[1])
        /\ ~HasSubstring(RewriteRoot(src.fstab),
               <<"L","A","B","E","L","=">>
               \o gadget[1].structures[1].filesystem_label))
       => LET bl == gadget[1].bootloader
              done == /\ pc' = "generate_manifests"
                      /\ rootfs'.system_boot = "dir"
                      /\ EndsWith(rootfs'.fstab,
                             ExpectedBootLine(gadget[1].structures[1]))
          IN  CASE bl = "grub" -> done /\ rootfs'.grub = "bootlink"
                [] bl = "uboot" -> done /\ rootfs'.firmware = "bootlink"
                [] OTHER -> /\ SamePath(src.grub, rootfs'.grub)
                            /\ SamePath(src.firmware, rootfs'.firmware)]_vars

====
